---- MODULE Spec2Model ----
(***************************************************************************)
(* Model of src/src/app.ts: the ProjectState store (projects, listeners,   *)
(* addProject, moveProject, updateListeners), the ProjectList listeners    *)
(* that subscribe to it and the drop handler that requests a move.         *)
(*                                                                         *)
(* Project instances and arrays are objects with identity: an array holds  *)
(* references to Project instances, and Array.prototype.slice() allocates  *)
(* a new array holding the same references.                                *)
(***************************************************************************)
EXTENDS Integers, Sequences, FiniteSets, TLC

\* ---------------------------------------------------------------- bounds
MaxProjects == 2
MaxListeners == 2
\* frames of addProject / moveProject the call stack of the engine holds;
\* above MaxProjects + 1, the deepest a terminating callback below nests
MaxDepth == 4

\* --------------------------------------------------------------- numbers
\* A number of the program is a double: NaN, Infinity, -Infinity or a finite
\* one. A finite double is written by the shortest decimal that reads back as
\* it, which is the decimal Number.prototype.toString prints: its digits, the
\* most significant first and neither the first nor the last a zero, times
\* 10^e. Zero has no digits; neg is the sign, which zero has too.
Finite(neg, digits, e) ==
  [neg |-> neg, digits |-> digits, e |-> e, kind |-> "finite"]

NaN == [neg |-> FALSE, digits |-> <<>>, e |-> 0, kind |-> "NaN"]
Infinity == [neg |-> FALSE, digits |-> <<>>, e |-> 0, kind |-> "Infinity"]

Negate(x) == [x EXCEPT !.neg = ~x.neg]

Abs(n) == IF n < 0 THEN 0 - n ELSE n

\* a natural number of any size: its limbs in base 10000, the least
\* significant first and the last not zero; zero has no limbs
Base == 10000

RECURSIVE BigOf(_)
BigOf(n) == IF n = 0 THEN <<>> ELSE <<n % Base>> \o BigOf(n \div Base)

\* a number without the zero limbs at its top
Strip(a) ==
  LET nz == {i \in 1..Len(a) : a[i] # 0}
  IN IF nz = {} THEN <<>>
     ELSE SubSeq(a, 1, CHOOSE i \in nz : \A j \in nz : j <= i)

Limb(a, i) == IF i <= Len(a) THEN a[i] ELSE 0

\* the limbs of a sum or product with the carry out of them on top
WithCarry(all) == all.limbs \o BigOf(all.carry)

\* limbs lo .. hi of a * k + c and the carry out of them: the lower half,
\* then the upper half with the carry of the lower
RECURSIVE MulAddIn(_, _, _, _, _)
MulAddIn(a, lo, hi, k, c) ==
  IF lo = hi
  THEN LET v == a[lo] * k + c
       IN [limbs |-> <<v % Base>>, carry |-> v \div Base]
  ELSE LET mid == (lo + hi) \div 2
           low == MulAddIn(a, lo, mid, k, c)
           high == MulAddIn(a, mid + 1, hi, k, low.carry)
       IN [limbs |-> low.limbs \o high.limbs, carry |-> high.carry]

\* a * k + c, for k and c of at most Base
MulAdd(a, k, c) ==
  IF a = <<>> \/ k = 0 THEN BigOf(c)
  ELSE WithCarry(MulAddIn(a, 1, Len(a), k, c))

RECURSIVE BigAddIn(_, _, _, _, _)
BigAddIn(a, b, lo, hi, c) ==
  IF lo = hi
  THEN LET v == Limb(a, lo) + Limb(b, lo) + c
       IN [limbs |-> <<v % Base>>, carry |-> v \div Base]
  ELSE LET mid == (lo + hi) \div 2
           low == BigAddIn(a, b, lo, mid, c)
           high == BigAddIn(a, b, mid + 1, hi, low.carry)
       IN [limbs |-> low.limbs \o high.limbs, carry |-> high.carry]

BigAdd(a, b) ==
  IF a = <<>> THEN b
  ELSE IF b = <<>> THEN a
  ELSE WithCarry(BigAddIn(a, b, 1, IF Len(a) > Len(b) THEN Len(a) ELSE Len(b), 0))

\* limbs lo .. hi of a - b - c and the borrow out of them
RECURSIVE BigSubIn(_, _, _, _, _)
BigSubIn(a, b, lo, hi, c) ==
  IF lo = hi
  THEN LET v == a[lo] - Limb(b, lo) - c
       IN IF v < 0 THEN [limbs |-> <<v + Base>>, carry |-> 1]
          ELSE [limbs |-> <<v>>, carry |-> 0]
  ELSE LET mid == (lo + hi) \div 2
           low == BigSubIn(a, b, lo, mid, c)
           high == BigSubIn(a, b, mid + 1, hi, low.carry)
       IN [limbs |-> low.limbs \o high.limbs, carry |-> high.carry]

\* a - b, for a >= b
BigSub(a, b) ==
  IF a = <<>> THEN <<>> ELSE Strip(BigSubIn(a, b, 1, Len(a), 0).limbs)

\* -1, 0 or 1 as a is below, equal to or above b
BigCmp(a, b) ==
  IF Len(a) # Len(b) THEN (IF Len(a) < Len(b) THEN -1 ELSE 1)
  ELSE LET diff == {i \in 1..Len(a) : a[i] # b[i]}
           top == CHOOSE i \in diff : \A j \in diff : j <= i
       IN IF diff = {} THEN 0 ELSE IF a[top] < b[top] THEN -1 ELSE 1

IsOdd(a) == a # <<>> /\ a[1] % 2 = 1

RECURSIVE SmallPow(_, _)
SmallPow(b, n) == IF n = 0 THEN 1 ELSE b * SmallPow(b, n - 1)

\* a * 2^n: thirteen doublings are one multiplication of the limbs
RECURSIVE MulPow2(_, _)
MulPow2(a, n) ==
  IF a = <<>> THEN <<>>
  ELSE IF n <= 13 THEN MulAdd(a, SmallPow(2, n), 0)
  ELSE MulPow2(MulPow2(a, n \div 2), n - n \div 2)

\* a * 10^n: four places are one limb
MulPow10(a, n) ==
  IF a = <<>> THEN <<>>
  ELSE [k \in 1..(n \div 4) |-> 0] \o MulAdd(a, SmallPow(10, n % 4), 0)

\* a * k^n
RECURSIVE MulPow(_, _, _)
MulPow(a, k, n) ==
  IF a = <<>> \/ n = 0 THEN a
  ELSE IF n = 1 THEN MulAdd(a, k, 0)
  ELSE MulPow(MulPow(a, k, n \div 2), k, n - n \div 2)

\* the largest d of lo .. hi - 1 with d * b <= a, given lo * b <= a < hi * b
RECURSIVE QuotientIn(_, _, _, _)
QuotientIn(a, b, lo, hi) ==
  IF hi - lo = 1 THEN lo
  ELSE LET mid == (lo + hi) \div 2
       IN IF BigCmp(MulAdd(b, mid, 0), a) <= 0 THEN QuotientIn(a, b, mid, hi)
          ELSE QuotientIn(a, b, lo, mid)

RECURSIVE BigDivFrom(_, _, _, _)
BigDivFrom(r, b, p, q) ==
  IF p < 0 THEN [q |-> Strip(q), r |-> r]
  ELSE LET shifted == [k \in 1..p |-> 0] \o b
           d == QuotientIn(r, shifted, 0, Base)
       IN BigDivFrom(BigSub(r, MulAdd(shifted, d, 0)), b, p - 1, <<d>> \o q)

\* quotient q and remainder r of a by b, for b > 0
BigDiv(a, b) ==
  BigDivFrom(a, b, IF Len(a) > Len(b) THEN Len(a) - Len(b) ELSE 0, <<>>)

\* the natural number that digits lo .. hi of a sequence of digits of a radix
\* denote: the upper half shifted over the lower half
RECURSIVE BigOfDigitsIn(_, _, _, _)
BigOfDigitsIn(ds, lo, hi, radix) ==
  IF lo = hi THEN BigOf(ds[lo])
  ELSE LET mid == (lo + hi) \div 2
       IN BigAdd(MulPow(BigOfDigitsIn(ds, lo, mid, radix), radix, hi - mid),
                 BigOfDigitsIn(ds, mid + 1, hi, radix))

BigOfDigits(ds, radix) ==
  IF ds = <<>> THEN <<>> ELSE BigOfDigitsIn(ds, 1, Len(ds), radix)

\* the decimal digits of a natural number, four for each limb
DigitsOfBig(a) ==
  [k \in 1..(4 * Len(a)) |->
     LET limb == a[Len(a) - (k - 1) \div 4]
         place == (k - 1) % 4
     IN IF place = 0 THEN limb \div 1000
        ELSE IF place = 1 THEN (limb \div 100) % 10
        ELSE IF place = 2 THEN (limb \div 10) % 10
        ELSE limb % 10]

\* a double is f * 2^q with f below 2^Precision and q of MinExponent ..
\* MaxExponent
Precision == 53
MinExponent == -1074
MaxExponent == 971

\* num / den < 2^t
BelowPow2(num, den, t) ==
  BigCmp(MulPow2(num, IF t < 0 THEN 0 - t ELSE 0),
         MulPow2(den, IF t > 0 THEN t ELSE 0)) < 0

\* the least t of lo + 1 .. hi with num / den < 2^t, or hi when there is none
RECURSIVE LeastPow2(_, _, _, _)
LeastPow2(num, den, lo, hi) ==
  IF hi - lo = 1 THEN hi
  ELSE LET mid == (lo + hi) \div 2
       IN IF BelowPow2(num, den, mid) THEN LeastPow2(num, den, lo, mid)
          ELSE LeastPow2(num, den, mid, hi)

\* what a value too small or too large for a double rounds to
NoDouble(kind) == [kind |-> kind, f |-> <<>>, q |-> 0]

\* f * 2^q as a double: an f of 2^Precision is the least f of the exponent
\* above, and past the largest exponent the double is Infinity
Within(f, q) ==
  IF q > MaxExponent THEN NoDouble("Infinity")
  ELSE [kind |-> "finite", f |-> f, q |-> q]

Carried(f, q) ==
  IF f = <<>> THEN NoDouble("zero")
  ELSE IF f = MulPow2(<<1>>, Precision)
       THEN Within(MulPow2(<<1>>, Precision - 1), q + 1)
  ELSE Within(f, q)

\* a quotient rounded to the nearest integer, to the even one of two equally
\* near: half is the comparison of twice the remainder with the divisor
RoundedUp(quotient, half) ==
  IF half > 0 \/ (half = 0 /\ IsOdd(quotient)) THEN BigAdd(quotient, <<1>>)
  ELSE quotient

RoundHalfEven(dm, b) == RoundedUp(dm.q, BigCmp(MulAdd(dm.r, 2, 0), b))

NearestQuotient(a, b) == RoundHalfEven(BigDiv(a, b), b)

\* the integer nearest to num / (den * 2^q)
NearestMultiple(num, den, q) ==
  NearestQuotient(MulPow2(num, IF q < 0 THEN 0 - q ELSE 0),
                  MulPow2(den, IF q > 0 THEN q ELSE 0))

\* the double nearest to num / den, which is below 2^t and, for t above
\* MinExponent - 1, not below 2^(t-1): zero below half the smallest double,
\* Infinity from 2^(MaxExponent + Precision) on, and else the nearest
\* multiple of 2^q for the exponent q of the doubles below 2^t
RoundedBelow(num, den, t) ==
  LET q == IF t - Precision < MinExponent THEN MinExponent ELSE t - Precision
  IN IF t < MinExponent THEN NoDouble("zero")
     ELSE IF t > MaxExponent + Precision THEN NoDouble("Infinity")
     ELSE Carried(NearestMultiple(num, den, q), q)

\* the double nearest to num / den > 0, the one with an even f of two equally
\* near
NearestDouble(num, den) ==
  RoundedBelow(num, den,
               LeastPow2(num, den, MinExponent - 2, MaxExponent + Precision + 1))

\* The shortest decimal that reads back as the double f * 2^q. The decimals
\* that do lie between low = (r - mm) / s and high = (r + mp) / s, where
\* r / s is the double: half a step to each side of it (a quarter of its own
\* step below, when f is the least of its exponent), the ends included when
\* f is even.
Boundaries(f, up, down, shift) ==
  [r |-> MulPow2(f, up + shift), s |-> MulPow2(<<1>>, down + shift),
   mp |-> MulPow2(<<1>>, up + shift - 1), mm |-> MulPow2(<<1>>, up)]

\* a comparison c of -1, 0 or 1 says above, or equal when the end is included
Reaches(c, closed) == IF closed THEN c >= 0 ELSE c > 0

\* the scaling of the digit generation: the k with 10^(k-1) <= high < 10^k
\* (high <= 10^k when the end is not included), s becoming s * 10^k
RECURSIVE Scale(_, _, _, _, _, _)
Scale(r, s, mp, mm, k, closed) ==
  IF Reaches(BigCmp(BigAdd(r, mp), s), closed)
  THEN Scale(r, MulAdd(s, 10, 0), mp, mm, k + 1, closed)
  ELSE IF ~Reaches(BigCmp(MulAdd(BigAdd(r, mp), 10, 0), s), closed)
       THEN Scale(MulAdd(r, 10, 0), s, MulAdd(mp, 10, 0), MulAdd(mm, 10, 0),
                  k - 1, closed)
  ELSE [r |-> r, s |-> s, mp |-> mp, mm |-> mm, k |-> k]

\* the scaling, started from an estimate k of it
Scaled(b, k, closed) ==
  Scale(MulPow10(b.r, IF k < 0 THEN 0 - k ELSE 0),
        MulPow10(b.s, IF k > 0 THEN k ELSE 0),
        MulPow10(b.mp, IF k < 0 THEN 0 - k ELSE 0),
        MulPow10(b.mm, IF k < 0 THEN 0 - k ELSE 0), k, closed)

\* the digit d is the last one when low (d itself reads back) or high (d + 1
\* does); of two that read back the nearer, where nearer is the comparison
\* of twice the rest with s, and the even one of two equally near
LastDigit(d, low, high, nearer) ==
  IF low /\ (~high \/ nearer < 0 \/ (nearer = 0 /\ d % 2 = 0)) THEN d
  ELSE d + 1

\* the digits, one at a time, until the decimal reads back as the double:
\* the next digit is the quotient of 10 * r by s
RECURSIVE Generate(_, _, _, _, _, _)
RECURSIVE GenerateDigit(_, _, _, _, _, _)
RECURSIVE GenerateNext(_, _, _, _, _, _, _, _)
GenerateNext(rest, s, mp, mm, closed, acc, d, last) ==
  IF last.low \/ last.high
  THEN Append(acc, LastDigit(d, last.low, last.high,
                             BigCmp(MulAdd(rest, 2, 0), s)))
  ELSE Generate(rest, s, mp, mm, closed, Append(acc, d))

GenerateDigit(dm, s, mp, mm, closed, acc) ==
  GenerateNext(dm.r, s, mp, mm, closed, acc, Limb(dm.q, 1),
               [low |-> ~Reaches(BigCmp(dm.r, mm), ~closed),
                high |-> Reaches(BigCmp(BigAdd(dm.r, mp), s), closed)])

Generate(r, s, mp, mm, closed, acc) ==
  GenerateDigit(BigDiv(MulAdd(r, 10, 0), s), s, MulAdd(mp, 10, 0),
                MulAdd(mm, 10, 0), closed, acc)

WithExponent(digits, k) == [digits |-> digits, e |-> k - Len(digits)]

Generated(sc, closed) ==
  WithExponent(Generate(sc.r, sc.s, sc.mp, sc.mm, closed, <<>>), sc.k)

\* The steps are two to a side when f is the least of its exponent, because
\* the double below is half as far; the scaling starts from an estimate of k
\* by the exponent, log 2 being about 0.30103.
ShortestDecimal(f, q) ==
  Generated(Scaled(Boundaries(f, IF q > 0 THEN q ELSE 0,
                              IF q < 0 THEN 0 - q ELSE 0,
                              IF f = MulPow2(<<1>>, Precision - 1)
                                 /\ q > MinExponent THEN 2 ELSE 1),
                   ((q + Precision - 1) * 30103) \div 100000, ~IsOdd(f)),
            ~IsOdd(f))

\* a decimal without its leading and trailing zeros
Stripped(ds, e) ==
  LET nz == {k \in 1..Len(ds) : ds[k] # 0}
  IN IF nz = {} THEN [digits |-> <<>>, e |-> 0]
     ELSE [digits |-> SubSeq(ds, CHOOSE k \in nz : \A j \in nz : k <= j,
                             CHOOSE k \in nz : \A j \in nz : j <= k),
           e |-> e + Len(ds) - (CHOOSE k \in nz : \A j \in nz : j <= k)]

InfinityOf(neg) == IF neg THEN Negate(Infinity) ELSE Infinity

FiniteOf(neg, decimal) == Finite(neg, decimal.digits, decimal.e)

\* a double as a number of the program
NumberOf(neg, d) ==
  IF d.kind = "Infinity" THEN InfinityOf(neg)
  ELSE IF d.kind = "zero" THEN Finite(neg, <<>>, 0)
  ELSE FiniteOf(neg, ShortestDecimal(d.f, d.q))

\* the double nearest to digits * 10^e
NearestToDecimal(digits, e) ==
  NearestDouble(MulPow10(BigOfDigits(digits, 10), IF e > 0 THEN e ELSE 0),
                MulPow10(<<1>>, IF e < 0 THEN 0 - e ELSE 0))

\* the double nearest to a decimal s without leading and trailing zeros. A
\* decimal of at least 1e309 is Infinity and one below 1e-324 is zero; one of
\* at most 15 digits between 1e-307 and 1e308 is the shortest decimal of its
\* double
DoubleOf(neg, s) ==
  IF s.digits = <<>> THEN Finite(neg, <<>>, 0)
  ELSE IF Len(s.digits) + s.e > 309 THEN InfinityOf(neg)
  ELSE IF Len(s.digits) + s.e < -323 THEN Finite(neg, <<>>, 0)
  ELSE IF Len(s.digits) <= 15 /\ Len(s.digits) + s.e >= -306
          /\ Len(s.digits) + s.e <= 308
       THEN Finite(neg, s.digits, s.e)
  ELSE NumberOf(neg, NearestToDecimal(s.digits, s.e))

\* the double nearest to the decimal ds * 10^e, with the sign neg
Double(neg, ds, e) == DoubleOf(neg, Stripped(ds, e))

RECURSIVE DigitsOf(_)
DigitsOf(n) == IF n < 10 THEN <<n>> ELSE Append(DigitsOf(n \div 10), n % 10)

\* the double nearest to m * 10^e
Normal(m, e) == Double(m < 0, DigitsOf(Abs(m)), e)

\* the number an integer literal denotes: an integer below 2^53 is a double
Num(n) == FiniteOf(n < 0, Stripped(DigitsOf(Abs(n)), 0))

IsZero(x) == x.kind = "finite" /\ x.digits = <<>>

\* -1, 0 or 1: zero of either sign is 0
Sign(x) == IF IsZero(x) THEN 0 ELSE IF x.neg THEN -1 ELSE 1

\* the place of the leading digit of a finite number that is not zero
Magnitude(x) == Len(x.digits) + x.e

DigitAt(x, k) == IF k <= Len(x.digits) THEN x.digits[k] ELSE 0

\* |a| < |b| for finite numbers that are not zero
AbsLess(a, b) ==
  IF Magnitude(a) # Magnitude(b) THEN Magnitude(a) < Magnitude(b)
  ELSE LET n == IF Len(a.digits) > Len(b.digits) THEN Len(a.digits)
                ELSE Len(b.digits)
           diff == {k \in 1..n : DigitAt(a, k) # DigitAt(b, k)}
           first == CHOOSE k \in diff : \A j \in diff : k <= j
       IN diff # {} /\ DigitAt(a, first) < DigitAt(b, first)

\* a < b of numbers: false when an operand is NaN
Less(a, b) ==
  IF a.kind = "NaN" \/ b.kind = "NaN" THEN FALSE
  ELSE IF a.kind = "Infinity" /\ b.kind = "Infinity" THEN a.neg /\ ~b.neg
  ELSE IF a.kind = "Infinity" THEN a.neg
  ELSE IF b.kind = "Infinity" THEN ~b.neg
  ELSE IF Sign(a) # Sign(b) THEN Sign(a) < Sign(b)
  ELSE IF Sign(a) = 0 THEN FALSE
  ELSE IF Sign(a) > 0 THEN AbsLess(a, b)
  ELSE AbsLess(b, a)

\* ---------------------------------------------------------------- inputs
\* outcomes of Math.random().toString(); nothing in the code excludes a repeat
RandomIds == {"0.1", "0.2"}
\* text carried by a drop event: an id of a project, or any other text
DropIds == RandomIds \cup {"nonexistent-id"}
\* arguments of addProject <<title, description, numOfPeople>>: the store
\* takes whatever it is given
AddInputs == {<<"Build API", "Create REST API", Num(3)>>, <<"", "", Num(0)>>}

\* longest text given to validate directly
MaxTextLen == 3

\* ---------------------------------------------------------------- types
Active == 0
Finished == 1
ProjectStatus == {Active, Finished}

Project(id, title, description, people, status) ==
  [id |-> id, title |-> title, description |-> description,
   people |-> people, status |-> status]

\* the two types of ProjectList
ListTypes == {"active", "finished"}

\* the array this.projects, and "no array received yet"
StoreArr == 0
NoArr == -1
\* find() found nothing
NoRef == 0
\* ProjectState.instance before the first getInstance, and the first object
NoInstance == 0
FirstInstance == 1
\* a reference to an object that a subscriber made itself
ForeignRef == -2
ForeignProject == Project("foreign", "", "", Num(0), Active)

VARIABLES
  listeners,   \* this.listeners: the registered callbacks, in array order
  registered,  \* number of addListener calls so far
  heap,        \* the Project instances: heap[r] is the instance with reference r
  arrays,      \* the arrays: arrays[StoreArr] is this.projects, arrays[i] the
               \* array that slice() made for the i-th listener
  held,        \* held[i]: the array the i-th listener received last
  truth,       \* truth[i]: the projects of the store, by value, when the
               \* i-th listener was last invoked
  assigned,    \* assigned[i]: assignedProjects of the i-th listener's list
  stack,       \* the calls of addProject / moveProject in progress
  last,        \* the last completed call of addProject / moveProject
  instance,    \* ProjectState.instance: the store object, or none yet
  created,     \* number of ProjectState objects constructed so far
  projectState,\* the module constant projectState: what getInstance returned last
  probe        \* a call of validate: its argument and, once made, its result

\* the static field, the module constant and the validate call
aux == <<instance, created, projectState, probe>>

vars == <<listeners, registered, heap, arrays, held, truth, assigned, stack, last,
          instance, created, projectState, probe>>

\* ---------------------------------------------------------------- helpers
Deref(h, r) == IF r \in 1..Len(h) THEN h[r] ELSE ForeignProject

\* the projects of an array, by value
ValueOf(h, arr) == [k \in 1..Len(arr) |-> Deref(h, arr[k])]

StoreValue == ValueOf(heap, arrays[StoreArr])

Top == stack[Len(stack)]

Idle == stack = <<>>

ZeroCount == [k \in 1..MaxListeners |-> 0]

\* ------------------------------------------------------ array operations
\* unshift in place of push
PushFront(arr, x) == <<x>> \o arr

\* Array.prototype.push
Push(arr, x) == Append(arr, x)

\* a find() that falls back to the first project
FindOrFirst(h, arr, projectId) ==
  IF \E k \in 1..Len(arr) : Deref(h, arr[k]).id = projectId
  THEN arr[CHOOSE k \in 1..Len(arr) :
             /\ Deref(h, arr[k]).id = projectId
             /\ \A j \in 1..(k - 1) : Deref(h, arr[j]).id # projectId]
  ELSE IF arr # <<>> THEN arr[1] ELSE NoRef

\* Array.prototype.find on this.projects: the first project with the id
Find(h, arr, projectId) ==
  IF \E k \in 1..Len(arr) : Deref(h, arr[k]).id = projectId
  THEN arr[CHOOSE k \in 1..Len(arr) :
             /\ Deref(h, arr[k]).id = projectId
             /\ \A j \in 1..(k - 1) : Deref(h, arr[j]).id # projectId]
  ELSE NoRef

\* a filter that compares with <= in place of ===
FilterUpToStatus(h, arr, status) ==
  SelectSeq(arr, LAMBDA r : Deref(h, r).status <= status)

\* Array.prototype.filter by status, as the listener of a ProjectList does
FilterByStatus(h, arr, status) ==
  SelectSeq(arr, LAMBDA r : Deref(h, r).status = status)

\* what a subscriber can do to the array it was handed
SeqMutations == {"push", "pop", "reverse"}

Mutate(m, arr) ==
  CASE m = "push" -> Push(arr, ForeignRef)
    [] m = "pop" -> SubSeq(arr, 1, Len(arr) - 1)
    [] m = "reverse" -> [k \in 1..Len(arr) |-> arr[Len(arr) + 1 - k]]

\* no copy: the listener is handed this.projects itself
NewArrayAlias(i) == StoreArr

\* the array that slice() allocates when the i-th listener is invoked
NewArray(i) == i

\* slice(1) in place of slice()
SliceFromOne(arrs, src, dst) == [arrs EXCEPT ![dst] = Tail(arrs[src])]

\* Array.prototype.slice(): a new array with the same references
Slice(arrs, src, dst) == [arrs EXCEPT ![dst] = arrs[src]]

\* the status a ProjectList of a given type moves a dropped project to
StatusOfType(type) == IF type = "active" THEN Active ELSE Finished

\* ------------------------------------------------------------ validation
\* A string is the sequence of its characters; a character outside ASCII is
\* written by its escape.
Space == " "

\* WhiteSpace and LineTerminator of ECMAScript, which trim() and the
\* conversion to a number strip
WhiteSpace ==
  {" ", "\t", "\n", "\r", "\f", "\\u000B", "\\u00A0", "\\uFEFF", "\\u1680",
   "\\u2000", "\\u2001", "\\u2002", "\\u2003", "\\u2004", "\\u2005",
   "\\u2006", "\\u2007", "\\u2008", "\\u2009", "\\u200A", "\\u2028",
   "\\u2029", "\\u202F", "\\u205F", "\\u3000"}

DigitChars == {"0", "1", "2", "3", "4", "5", "6", "7", "8", "9"}
HexChars ==
  DigitChars \cup {"a", "b", "c", "d", "e", "f", "A", "B", "C", "D", "E", "F"}
OctalChars == {"0", "1", "2", "3", "4", "5", "6", "7"}
BinaryChars == {"0", "1"}

DigitValue ==
  [c \in HexChars |->
     CASE c = "0" -> 0 [] c = "1" -> 1 [] c = "2" -> 2 [] c = "3" -> 3
       [] c = "4" -> 4 [] c = "5" -> 5 [] c = "6" -> 6 [] c = "7" -> 7
       [] c = "8" -> 8 [] c = "9" -> 9
       [] c \in {"a", "A"} -> 10 [] c \in {"b", "B"} -> 11
       [] c \in {"c", "C"} -> 12 [] c \in {"d", "D"} -> 13
       [] c \in {"e", "E"} -> 14 [] c \in {"f", "F"} -> 15]
DigitChar(n) == CHOOSE c \in DigitChars : DigitValue[c] = n

\* the places of the characters of a text that are not white space
Inked(s) == {k \in 1..Len(s) : s[k] \notin WhiteSpace}

\* the text from its first character that is not white space on
TrimStart(s) ==
  IF Inked(s) = {} THEN <<>>
  ELSE SubSeq(s, CHOOSE k \in Inked(s) : \A j \in Inked(s) : k <= j, Len(s))

\* the text up to its last character that is not white space
TrimEnd(s) ==
  IF Inked(s) = {} THEN <<>>
  ELSE SubSeq(s, 1, CHOOSE k \in Inked(s) : \A j \in Inked(s) : j <= k)

\* a trim() that leaves the text as it is
NoTrim(s) == s

\* String.prototype.trim
Trim(s) == TrimEnd(TrimStart(s))

\* the value of a short run of decimal digits
RECURSIVE DigitsValue(_)
DigitsValue(ds) ==
  IF ds = <<>> THEN 0
  ELSE 10 * DigitsValue(SubSeq(ds, 1, Len(ds) - 1)) + ds[Len(ds)]

\* a text of one or more characters, all of a set
AllIn(s, chars) == s # <<>> /\ \A k \in 1..Len(s) : s[k] \in chars

\* the place of the first character of a set in a text, or 0
IndexOf(s, chars) ==
  IF \E k \in 1..Len(s) : s[k] \in chars
  THEN CHOOSE k \in 1..Len(s) :
         /\ s[k] \in chars
         /\ \A j \in 1..(k - 1) : s[j] \notin chars
  ELSE 0

\* the digits a text of digit characters stands for
DigitValues(s) == [k \in 1..Len(s) |-> DigitValue[s[k]]]

\* the exponent a run of digits denotes; past nine digits, more than the
\* characters a string can hold, every exponent gives the same number
ExponentValue(s) ==
  LET z == Stripped(DigitValues(s), 0)
  IN IF Len(z.digits) + z.e > 9 THEN 999999999
     ELSE DigitsValue(z.digits) * SmallPow(10, z.e)

\* an unsigned decimal literal: digits, with an optional point and an
\* optional exponent; NaN for any other text
DecimalValue(t) ==
  LET ei == IndexOf(t, {"e", "E"})
      mant == IF ei = 0 THEN t ELSE SubSeq(t, 1, ei - 1)
      expo == IF ei = 0 THEN <<>> ELSE SubSeq(t, ei + 1, Len(t))
      pi == IndexOf(mant, {"."})
      int == IF pi = 0 THEN mant ELSE SubSeq(mant, 1, pi - 1)
      frac == IF pi = 0 THEN <<>> ELSE SubSeq(mant, pi + 1, Len(mant))
      expSigned == expo # <<>> /\ Head(expo) \in {"+", "-"}
      expDigits == IF expSigned THEN Tail(expo) ELSE expo
      okMant == /\ \A k \in 1..Len(int) : int[k] \in DigitChars
                /\ \A k \in 1..Len(frac) : frac[k] \in DigitChars
                /\ (int # <<>> \/ frac # <<>>)
      okExp == ei = 0 \/ AllIn(expDigits, DigitChars)
      exp == IF expSigned /\ Head(expo) = "-"
             THEN 0 - ExponentValue(expDigits) ELSE ExponentValue(expDigits)
  IN IF okMant /\ okExp
     THEN Double(FALSE, DigitValues(int \o frac), exp - Len(frac))
     ELSE NaN

\* the double nearest to the value of a run of digits in a radix
RadixLiteralValue(s, radix) ==
  Double(FALSE, DigitsOfBig(BigOfDigits(DigitValues(s), radix)), 0)

InfinityText == <<"I", "n", "f", "i", "n", "i", "t", "y">>

\* a literal with a radix prefix: 0x, 0o or 0b and digits of the radix
IsRadixLiteral(t, letters, chars) ==
  Len(t) > 2 /\ t[1] = "0" /\ t[2] \in letters /\ AllIn(SubSeq(t, 3, Len(t)), chars)

\* unary + on the value of an input element: the text without the white
\* space around it is empty (0), Infinity with an optional sign, a hex, octal
\* or binary literal, or a decimal literal with an optional sign; anything
\* else is NaN
ToNumber(s) ==
  LET t == Trim(s)
      signed == t # <<>> /\ Head(t) \in {"+", "-"}
      body == IF signed THEN Tail(t) ELSE t
      digits == SubSeq(t, 3, Len(t))
      value ==
        IF body = InfinityText THEN Infinity
        ELSE IF ~signed /\ IsRadixLiteral(t, {"x", "X"}, HexChars)
             THEN RadixLiteralValue(digits, 16)
        ELSE IF ~signed /\ IsRadixLiteral(t, {"o", "O"}, OctalChars)
             THEN RadixLiteralValue(digits, 8)
        ELSE IF ~signed /\ IsRadixLiteral(t, {"b", "B"}, BinaryChars)
             THEN RadixLiteralValue(digits, 2)
        ELSE DecimalValue(body)
  IN IF t = <<>> THEN Num(0)
     ELSE IF signed /\ Head(t) = "-" THEN Negate(value)
     ELSE value

RECURSIVE NatToText(_)
NatToText(n) ==
  IF n < 10 THEN <<DigitChar(n)>>
  ELSE NatToText(n \div 10) \o <<DigitChar(n % 10)>>

Zeros(n) == [k \in 1..n |-> "0"]

\* Number.prototype.toString: the digits with the point where it falls, or
\* the exponent form outside 1e-7 .. 1e21
NumberToText(x) ==
  IF x.kind = "NaN" THEN <<"N", "a", "N">>
  ELSE IF x.kind = "Infinity"
       THEN (IF x.neg THEN <<"-">> ELSE <<>>) \o InfinityText
  ELSE IF IsZero(x) THEN <<"0">>
  ELSE LET s == [j \in 1..Len(x.digits) |-> DigitChar(x.digits[j])]
           k == Len(s)
           n == k + x.e
           ex == <<"e">> \o (IF n - 1 < 0 THEN <<"-">> ELSE <<"+">>)
                   \o NatToText(Abs(n - 1))
           body ==
             IF k <= n /\ n <= 21 THEN s \o Zeros(n - k)
             ELSE IF 0 < n /\ n <= 21
                  THEN SubSeq(s, 1, n) \o <<".">> \o SubSeq(s, n + 1, k)
             ELSE IF -6 < n /\ n <= 0 THEN <<"0", ".">> \o Zeros(0 - n) \o s
             ELSE IF k = 1 THEN s \o ex
             ELSE <<s[1], ".">> \o SubSeq(s, 2, k) \o ex
       IN (IF x.neg THEN <<"-">> ELSE <<>>) \o body

\* > in place of >=
Gt(a, b) == Less(b, a)

\* >= and <= of numbers: false when an operand is NaN
Geq(a, b) == a.kind # "NaN" /\ b.kind # "NaN" /\ ~Less(a, b)
Leq(a, b) == a.kind # "NaN" /\ b.kind # "NaN" /\ ~Less(b, a)

\* the properties a Validatable can carry besides value
ConstraintNames == {"required", "minLength", "maxLength", "min", "max"}

\* a Validatable: type is typeof value, has the properties that are present
Validatable(type, value, has, required, minLength, maxLength, min, max) ==
  [type |-> type, value |-> value, has |-> has, required |-> required,
   minLength |-> minLength, maxLength |-> maxLength, min |-> min, max |-> max]

\* validatableInput.value.toString()
ValueText(v) == IF v.type = "string" THEN v.value ELSE NumberToText(v.value)

\* a validate whose required test has no trim()
validateNoTrim(v) ==
  /\ ("required" \in v.has /\ v.required) => Len(NoTrim(ValueText(v))) # 0
  /\ ("minLength" \in v.has /\ v.type = "string") => Len(ValueText(v)) >= v.minLength
  /\ ("maxLength" \in v.has /\ v.type = "string") => Len(ValueText(v)) <= v.maxLength
  /\ ("min" \in v.has /\ v.type = "number") => Geq(v.value, v.min)
  /\ ("max" \in v.has /\ v.type = "number") => Leq(v.value, v.max)

\* function validate: isValid starts true and each if that applies and-s its
\* test into it
validate(v) ==
  LET v0 == TRUE
      v1 == IF "required" \in v.has /\ v.required
            THEN v0 /\ Len(Trim(ValueText(v))) # 0 ELSE v0
      v2 == IF "minLength" \in v.has /\ v.type = "string"
            THEN v1 /\ Len(ValueText(v)) >= v.minLength ELSE v1
      v3 == IF "maxLength" \in v.has /\ v.type = "string"
            THEN v2 /\ Len(ValueText(v)) <= v.maxLength ELSE v2
      v4 == IF "min" \in v.has /\ v.type = "number"
            THEN v3 /\ Geq(v.value, v.min) ELSE v3
      v5 == IF "max" \in v.has /\ v.type = "number"
            THEN v4 /\ Leq(v.value, v.max) ELSE v4
  IN v5

\* texts of at most n characters, each a blank, a tab or a letter
RECURSIVE TextsUpTo(_)
TextsUpTo(n) ==
  IF n = 0 THEN {<<>>}
  ELSE LET shorter == TextsUpTo(n - 1)
       IN shorter \cup {Append(t, c) : t \in shorter, c \in {Space, "\t", "a"}}

\* the numbers validate is tried on
ValidateNumbers == {Num(n) : n \in -1..6} \cup {Normal(15, -1), NaN}

\* the arguments validate is tried on: a text of at most len characters or a
\* number, length limits of 0, 2 and len, with every
\* combination of the five constraints
ValidateInputs(len) ==
  {Validatable(tv[1], tv[2], has, required, minLength, maxLength, min, max) :
     tv \in ({"string"} \X TextsUpTo(len)) \cup ({"number"} \X ValidateNumbers),
     has \in SUBSET ConstraintNames,
     required \in BOOLEAN,
     minLength \in {0, 2, len}, maxLength \in {0, 2, len},
     min \in {Num(1), Num(3)}, max \in {Num(3), Num(5)}}

\* the three Validatables of gatherUserInput
TitleInput(t) ==
  Validatable("string", t, {"required"}, TRUE, 0, 0, Num(0), Num(0))
DescriptionInput(d) ==
  Validatable("string", d, {"required", "minLength"}, TRUE, 5, 0, Num(0), Num(0))
PeopleInput(n) ==
  Validatable("number", n, {"required", "min", "max"}, TRUE, 0, 0, Num(1), Num(5))

\* a test that alerts only when all three fields are invalid
RejectsAll(title, description, people) ==
  /\ ~validate(TitleInput(title))
  /\ ~validate(DescriptionInput(description))
  /\ ~validate(PeopleInput(ToNumber(people)))

\* the test of gatherUserInput: it alerts and returns nothing
Rejects(title, description, people) ==
  \/ ~validate(TitleInput(title))
  \/ ~validate(DescriptionInput(description))
  \/ ~validate(PeopleInput(ToNumber(people)))

\* values of the three input elements when the form is submitted
FormTitles == {<<"\t">>, <<"a">>}
FormDescriptions == {<<"a", "b", "c", "d">>, <<" ", "a", "b", "c", " ">>}
FormPeople == {<<>>, <<"6">>, <<"x">>, <<"1", ".", "5">>}

\* ------------------------------------------------------------ the store
\* new Project(Math.random().toString(), title, description, numOfPeople, Active)
NewProject(id, title, description, numOfPeople) ==
  Project(id, title, description, numOfPeople, Active)

\* this.listeners.unshift(listenerFn)
PushListenerFront(ls, fn) == <<fn>> \o ls

\* this.listeners.push(listenerFn)
PushListener(ls, fn) == Push(ls, fn)

\* the test without the comparison of the status
MoveAppliesFound(h, ref, newStatus) == ref # NoRef

\* project && project.status !== newStatus
MoveApplies(h, ref, newStatus) == ref # NoRef /\ h[ref].status # newStatus

\* every project with the id of the one found is given the status
SetStatusById(h, ref, newStatus) ==
  [k \in 1..Len(h) |->
     IF h[k].id = h[ref].id THEN [h[k] EXCEPT !.status = newStatus] ELSE h[k]]

\* project.status = newStatus
SetStatus(h, ref, newStatus) == [h EXCEPT ![ref].status = newStatus]

\* moveProject is called with the arguments of the call before it
Repeats(op, id, status) ==
  op = "move" /\ last.op = op /\ last.id = id /\ last.status = status

\* a call of addProject or moveProject at its start: its arguments, the
\* projects of the store and the number of listeners before it, whether it
\* repeats the call before it, and how often that call invoked each listener
Call(op, id, status, title, description, people) ==
  [op |-> op, id |-> id, status |-> status, title |-> title,
   description |-> description, people |-> people,
   pre |-> StoreValue, n0 |-> Len(listeners),
   repeat |-> Repeats(op, id, status),
   before |-> IF Repeats(op, id, status) THEN last.count ELSE ZeroCount,
   i |-> 1, count |-> ZeroCount, order |-> <<>>]

\* a completed call, with the projects of the store at its return
Done(f, post) ==
  [op |-> f.op, id |-> f.id, status |-> f.status, title |-> f.title,
   description |-> f.description, people |-> f.people,
   pre |-> f.pre, n0 |-> f.n0, repeat |-> f.repeat, before |-> f.before,
   count |-> f.count, order |-> f.order, post |-> post]

\* no call has completed yet
NoCall ==
  [op |-> "none", id |-> "", status |-> Active, title |-> <<>>,
   description |-> <<>>, people |-> Num(0),
   pre |-> <<>>, n0 |-> 0, repeat |-> FALSE, before |-> ZeroCount,
   count |-> ZeroCount, order |-> <<>>, post |-> <<>>]

\* the fields of a ProjectState as its constructor leaves them, with no
\* listener called and no call made
Fresh ==
  /\ listeners = <<>>
  /\ registered = 0
  /\ heap = <<>>
  /\ arrays = [a \in 0..MaxListeners |-> <<>>]
  /\ held = <<>>
  /\ truth = <<>>
  /\ assigned = <<>>
  /\ stack = <<>>
  /\ last = NoCall

\* no call of validate
NoProbe == [done |-> FALSE, result |-> FALSE]

\* the module after const projectState = ProjectState.getInstance()
Init ==
  /\ Fresh
  /\ instance = FirstInstance
  /\ created = 1
  /\ projectState = FirstInstance
  /\ probe = NoProbe

\* the module before line 86: no ProjectState has been constructed
InitFresh ==
  /\ Fresh
  /\ instance = NoInstance
  /\ created = 0
  /\ projectState = NoInstance
  /\ probe = NoProbe

\* a test that never finds the instance
HasInstanceNever(inst) == FALSE

\* if(this.instance)
HasInstance(inst) == inst # NoInstance

\* static getInstance() returning r: the instance there is, or a newly
\* constructed ProjectState that becomes the instance
GetInstance(r) ==
  IF HasInstance(instance)
  THEN /\ r = instance
       /\ UNCHANGED <<instance, created, listeners, registered, heap, arrays,
                      held, truth, assigned, stack, last>>
  ELSE /\ r = created + 1
       /\ instance' = r
       /\ created' = created + 1
       /\ listeners' = <<>>
       /\ registered' = 0
       /\ heap' = <<>>
       /\ arrays' = [a \in 0..MaxListeners |-> <<>>]
       /\ held' = <<>>
       /\ truth' = <<>>
       /\ assigned' = <<>>
       /\ stack' = <<>>
       /\ last' = NoCall

\* const projectState = ProjectState.getInstance(), the first call
AcquireStore ==
  /\ projectState = NoInstance
  /\ \E r \in {instance, created + 1} :
       /\ GetInstance(r)
       /\ projectState' = r
  /\ UNCHANGED probe

\* a later call of ProjectState.getInstance()
GetInstanceAgain ==
  /\ projectState # NoInstance
  /\ Idle
  /\ \E r \in {instance, created + 1} :
       /\ GetInstance(r)
       /\ probe' = [done |-> TRUE, result |-> r]
  /\ UNCHANGED projectState

\* State.addListener
AddListener(fn) ==
  /\ projectState # NoInstance
  /\ Idle
  /\ Len(listeners) < MaxListeners
  /\ listeners' = PushListener(listeners, [fn |-> fn, serial |-> registered + 1])
  /\ registered' = registered + 1
  /\ held' = Append(held, NoArr)
  /\ truth' = Append(truth, <<>>)
  /\ assigned' = Append(assigned, <<>>)
  /\ UNCHANGED <<heap, arrays, stack, last>>
  /\ UNCHANGED aux

\* new ProjectList(type): assignedProjects = [], configure() adds the listener
NewProjectList(type) == AddListener(type)

\* ProjectState.addProject up to the call of updateListeners
AddProject(title, description, numOfPeople) ==
  /\ projectState # NoInstance
  /\ Idle
  /\ Len(heap) < MaxProjects
  /\ \E id \in RandomIds :
       /\ heap' = Append(heap, NewProject(id, title, description, numOfPeople))
       /\ arrays' = [arrays EXCEPT ![StoreArr] = Push(@, Len(heap) + 1)]
       /\ stack' = <<Call("add", id, Active, title, description, numOfPeople)>>
  /\ UNCHANGED <<listeners, registered, held, truth, assigned, last>>
  /\ UNCHANGED aux

\* ProjectState.moveProject up to the call of updateListeners
MoveProject(projectId, newStatus) ==
  /\ projectState # NoInstance
  /\ Idle
  /\ LET project == Find(heap, arrays[StoreArr], projectId)
         call == Call("move", projectId, newStatus, <<>>, <<>>, Num(0))
     IN IF MoveApplies(heap, project, newStatus)
        THEN /\ heap' = SetStatus(heap, project, newStatus)
             /\ stack' = <<call>>
             /\ UNCHANGED last
        ELSE /\ last' = Done(call, StoreValue)
             /\ UNCHANGED <<heap, stack>>
  /\ UNCHANGED <<listeners, registered, arrays, held, truth, assigned>>
  /\ UNCHANGED aux

\* ProjectList.dropHandler of the list behind the l-th listener
DropHandler(l, prjId) ==
  /\ l \in 1..Len(listeners)
  /\ listeners[l].fn \in ListTypes
  /\ MoveProject(prjId, StatusOfType(listeners[l].fn))

\* a loop that stops one listener short
LoopEndsEarly(i, ls) == i >= Len(ls)

\* for (const listenerFn of this.listeners): the iterator is done when the
\* index has passed the end of the array as it is now
LoopEnds(i, ls) == i > Len(ls)

\* validate is called with the argument of the probe
Validate ==
  /\ ~probe.done
  /\ probe' = [probe EXCEPT !.done = TRUE, !.result = validate(probe.arg)]
  /\ UNCHANGED <<listeners, registered, heap, arrays, held, truth, assigned,
                 stack, last, instance, created, projectState>>

\* ProjectInput.submitHandler with the values of the three input elements:
\* gatherUserInput alerts and nothing else happens, or addProject is called
\* with the title, the description and the number of people
SubmitHandler(title, description, people) ==
  IF Rejects(title, description, people)
  THEN /\ projectState # NoInstance
       /\ Idle
       /\ last' = Done(Call("alert", "", Active, <<>>, <<>>, Num(0)), StoreValue)
       /\ UNCHANGED <<listeners, registered, heap, arrays, held, truth,
                      assigned, stack>>
       /\ UNCHANGED aux
  ELSE AddProject(title, description, ToNumber(people))

\* the loop of updateListeners reaches the i-th listener and calls it
\* with this.projects.slice()
Handed(i) ==
  /\ ~Idle
  /\ i = Top.i
  /\ ~LoopEnds(i, listeners)
  /\ held' = [held EXCEPT ![i] = NewArray(i)]
  /\ truth' = [truth EXCEPT ![i] = StoreValue]

\* the stack once the loop of the running call has stepped past the i-th listener
Advanced(i) ==
  [stack EXCEPT ![Len(stack)] =
     [@ EXCEPT !.i = i + 1,
               !.count = [@ EXCEPT ![i] = @ + 1],
               !.order = Append(@, listeners[i].serial)]]

\* the i-th listener is called and returns without calling the store
Deliver(i) ==
  /\ Handed(i)
  /\ stack' = Advanced(i)

\* the listener of a ProjectList (renderProjects only draws assignedProjects)
InvokeProjectList(i) ==
  /\ Deliver(i)
  /\ listeners[i].fn \in ListTypes
  /\ arrays' = Slice(arrays, StoreArr, NewArray(i))
  /\ assigned' = [assigned EXCEPT ![i] =
                    FilterByStatus(heap, arrays'[NewArray(i)],
                                   StatusOfType(listeners[i].fn))]
  /\ UNCHANGED <<listeners, registered, heap, last>>
  /\ UNCHANGED aux

\* a subscriber that changes the array it is handed
InvokeSeqMutator(i) ==
  /\ Deliver(i)
  /\ listeners[i].fn = "mutator"
  /\ \E m \in SeqMutations :
       arrays' = [Slice(arrays, StoreArr, NewArray(i))
                    EXCEPT ![NewArray(i)] = Mutate(m, @)]
  /\ UNCHANGED <<listeners, registered, heap, assigned, last>>
  /\ UNCHANGED aux

\* a subscriber that sets the status of a project of the array it is handed
InvokeFieldWriter(i) ==
  /\ Deliver(i)
  /\ listeners[i].fn = "writer"
  /\ arrays' = Slice(arrays, StoreArr, NewArray(i))
  /\ \E k \in 1..Len(arrays'[NewArray(i)]), s \in ProjectStatus :
       heap' = SetStatus(heap, arrays'[NewArray(i)][k], s)
  /\ UNCHANGED <<listeners, registered, assigned, last>>
  /\ UNCHANGED aux

\* project.title = title
SetTitle(h, ref, title) == [h EXCEPT ![ref].title = title]

\* a subscriber that sets the title of a project of the array it is handed
InvokeFieldEditor(i) ==
  /\ Deliver(i)
  /\ listeners[i].fn = "editor"
  /\ arrays' = Slice(arrays, StoreArr, NewArray(i))
  /\ \E k \in 1..Len(arrays'[NewArray(i)]) :
       heap' = SetTitle(heap, arrays'[NewArray(i)][k], "Edited")
  /\ UNCHANGED <<listeners, registered, assigned, last>>
  /\ UNCHANGED aux

\* ----------------------------------------- callbacks that call the store
\* the first project of an array with a status, or NoRef
FirstWithStatus(h, arr, status) ==
  IF \E k \in 1..Len(arr) : Deref(h, arr[k]).status = status
  THEN arr[CHOOSE k \in 1..Len(arr) :
             /\ Deref(h, arr[k]).status = status
             /\ \A j \in 1..(k - 1) : Deref(h, arr[j]).status # status]
  ELSE NoRef

\* projectState.moveProject(projectId, newStatus) called by the i-th listener
\* while updateListeners is calling it: the same moveProject, one frame deeper
NestedMove(i, projectId, newStatus) ==
  /\ Len(stack) < MaxDepth
  /\ LET project == Find(heap, arrays[StoreArr], projectId)
         call == Call("move", projectId, newStatus, <<>>, <<>>, Num(0))
     IN IF MoveApplies(heap, project, newStatus)
        THEN /\ heap' = SetStatus(heap, project, newStatus)
             /\ stack' = Append(Advanced(i), call)
             /\ UNCHANGED last
        ELSE /\ last' = Done(call, StoreValue)
             /\ stack' = Advanced(i)
             /\ UNCHANGED heap

\* a subscriber that finishes the first active project it is shown:
\* projects => { const p = projects.find(prj => prj.status === Active);
\*               if (p) projectState.moveProject(p.id, Finished); }
InvokeFinisher(i) ==
  /\ Handed(i)
  /\ listeners[i].fn = "finisher"
  /\ arrays' = Slice(arrays, StoreArr, NewArray(i))
  /\ LET p == FirstWithStatus(heap, arrays'[NewArray(i)], Active)
     IN IF p = NoRef
        THEN stack' = Advanced(i) /\ UNCHANGED <<heap, last>>
        ELSE NestedMove(i, Deref(heap, p).id, Finished)
  /\ UNCHANGED <<listeners, registered, assigned>>
  /\ UNCHANGED aux

\* a subscriber that moves the first project it is shown to the other status:
\* projects => projectState.moveProject(projects[0].id, 1 - projects[0].status)
InvokeToggler(i) ==
  /\ Handed(i)
  /\ listeners[i].fn = "toggler"
  /\ arrays' = Slice(arrays, StoreArr, NewArray(i))
  /\ LET p == Deref(heap, arrays'[NewArray(i)][1])
     IN NestedMove(i, p.id, 1 - p.status)
  /\ UNCHANGED <<listeners, registered, assigned>>
  /\ UNCHANGED aux

\* the call stack of the engine is so deep that the next call may not fit:
\* how many frames fit depends on the engine and its stack size, so at one
\* frame below MaxDepth a call may fit or not, and at MaxDepth none fits
StackNearlyFull == Len(stack) >= MaxDepth - 1

\* the engine throws RangeError, nothing catches it, and every call in
\* progress is abandoned with its loop unfinished
Thrown == Done([stack[1] EXCEPT !.op = "RangeError"], StoreValue)

\* the stack runs out when the i-th listener, which has been handed the
\* projects, calls moveProject: nothing is written
StackOverflow(i) ==
  /\ Handed(i)
  /\ listeners[i].fn = "toggler"
  /\ StackNearlyFull
  /\ arrays' = Slice(arrays, StoreArr, NewArray(i))
  /\ stack' = <<>>
  /\ last' = Thrown
  /\ UNCHANGED <<listeners, registered, heap, assigned>>
  /\ UNCHANGED aux

\* the stack runs out in a moveProject that has written the status (line 73):
\* at its call of updateListeners, at slice() or at the call of the next
\* listener of its loop; that listener and the ones after it are not called
StackOverflowInLoop ==
  /\ ~Idle
  /\ StackNearlyFull
  /\ ~LoopEnds(Top.i, listeners)
  /\ stack' = <<>>
  /\ last' = Thrown
  /\ UNCHANGED <<listeners, registered, heap, arrays, held, truth, assigned>>
  /\ UNCHANGED aux

\* the stack runs out inside the listener of a ProjectList that has been
\* handed the projects: in filter (line 257), before assignedProjects is
\* assigned, or in renderProjects (line 262), after it
StackOverflowInList(i) ==
  /\ Handed(i)
  /\ listeners[i].fn \in ListTypes
  /\ StackNearlyFull
  /\ arrays' = Slice(arrays, StoreArr, NewArray(i))
  /\ \/ UNCHANGED assigned
     \/ assigned' = [assigned EXCEPT ![i] =
                       FilterByStatus(heap, arrays'[NewArray(i)],
                                      StatusOfType(listeners[i].fn))]
  /\ stack' = <<>>
  /\ last' = Thrown
  /\ UNCHANGED <<listeners, registered, heap>>
  /\ UNCHANGED aux

\* the loop of updateListeners ends and addProject / moveProject returns
Return ==
  /\ ~Idle
  /\ LoopEnds(Top.i, listeners)
  /\ last' = Done(Top, StoreValue)
  /\ stack' = SubSeq(stack, 1, Len(stack) - 1)
  /\ UNCHANGED <<listeners, registered, heap, arrays, held, truth, assigned>>
  /\ UNCHANGED aux

Next ==
  \/ \E type \in ListTypes : NewProjectList(type)
  \/ \E in \in AddInputs : AddProject(in[1], in[2], in[3])
  \/ \E id \in DropIds, s \in ProjectStatus : MoveProject(id, s)
  \/ \E l \in 1..MaxListeners, id \in DropIds : DropHandler(l, id)
  \/ \E i \in 1..MaxListeners : InvokeProjectList(i)
  \/ Return

Spec == Init /\ [][Next]_vars

\* the store with the two kinds of ProjectList and with subscribers that
\* change the arrays they are handed; projects are moved by drops
NextSeq ==
  \/ \E type \in ListTypes : NewProjectList(type)
  \/ AddListener("mutator")
  \/ AddProject("Build API", "Create REST API", Num(3))
  \/ \E l \in 1..MaxListeners, id \in DropIds : DropHandler(l, id)
  \/ \E i \in 1..MaxListeners : InvokeProjectList(i)
  \/ \E i \in 1..MaxListeners : InvokeSeqMutator(i)
  \/ Return

SpecSeq == Init /\ [][NextSeq]_vars

\* the store with subscribers that write to the projects they are handed
NextField ==
  \/ Next
  \/ AddListener("writer")
  \/ \E i \in 1..MaxListeners : InvokeFieldWriter(i)

SpecField == Init /\ [][NextField]_vars

\* the store with the two kinds of ProjectList and with a subscriber that
\* writes to the title of a project it is handed
NextEdit ==
  \/ \E type \in ListTypes : NewProjectList(type)
  \/ AddListener("editor")
  \/ AddProject("Build API", "Create REST API", Num(3))
  \/ \E l \in 1..MaxListeners, id \in DropIds : DropHandler(l, id)
  \/ \E i \in 1..MaxListeners : InvokeProjectList(i)
  \/ \E i \in 1..MaxListeners : InvokeFieldEditor(i)
  \/ Return

SpecEdit == Init /\ [][NextEdit]_vars

\* the page: projects are added by submitting the form and moved by drops
NextForm ==
  \/ \E type \in ListTypes : NewProjectList(type)
  \/ \E t \in FormTitles, d \in FormDescriptions, p \in FormPeople :
       SubmitHandler(t, d, p)
  \/ \E l \in 1..MaxListeners, id \in DropIds : DropHandler(l, id)
  \/ \E i \in 1..MaxListeners : InvokeProjectList(i)
  \/ Return

SpecForm == Init /\ [][NextForm]_vars

\* validate alone, on each of its arguments
InitValidate ==
  /\ Fresh
  /\ instance = FirstInstance
  /\ created = 1
  /\ projectState = FirstInstance
  /\ probe \in {[done |-> FALSE, result |-> FALSE, arg |-> v] : v \in ValidateInputs(MaxTextLen)}

NextValidate == Validate

SpecValidate == InitValidate /\ [][NextValidate]_vars

\* the module from its start: the store is obtained by getInstance, at line
\* 86 and again at any later time
NextSingleton ==
  \/ AcquireStore
  \/ GetInstanceAgain
  \/ \E type \in ListTypes : NewProjectList(type)
  \/ AddProject("Build API", "Create REST API", Num(3))
  \/ \E l \in 1..MaxListeners, id \in DropIds : DropHandler(l, id)
  \/ \E i \in 1..MaxListeners : InvokeProjectList(i)
  \/ Return

SpecSingleton == InitFresh /\ [][NextSingleton]_vars

\* the store with the two kinds of ProjectList and with a subscriber that
\* calls moveProject from its callback until no project is active
NextReentrant ==
  \/ \E type \in ListTypes : NewProjectList(type)
  \/ AddListener("finisher")
  \/ AddProject("Build API", "Create REST API", Num(3))
  \/ \E l \in 1..MaxListeners, id \in DropIds : DropHandler(l, id)
  \/ \E i \in 1..MaxListeners : InvokeProjectList(i)
  \/ \E i \in 1..MaxListeners : InvokeFinisher(i)
  \/ Return

SpecReentrant == Init /\ [][NextReentrant]_vars

\* the store with a subscriber that calls moveProject from every call of its
\* callback
NextToggle ==
  \/ \E type \in ListTypes : NewProjectList(type)
  \/ AddListener("toggler")
  \/ AddProject("Build API", "Create REST API", Num(3))
  \/ \E l \in 1..MaxListeners, id \in DropIds : DropHandler(l, id)
  \/ \E i \in 1..MaxListeners : InvokeProjectList(i)
  \/ \E i \in 1..MaxListeners : InvokeToggler(i)
  \/ \E i \in 1..MaxListeners : StackOverflow(i)
  \/ StackOverflowInLoop
  \/ \E i \in 1..MaxListeners : StackOverflowInList(i)
  \/ Return

SpecToggle == Init /\ [][NextToggle]_vars

\* ================================================================ claims
IsPrefix(a, b) == Len(a) <= Len(b) /\ a = SubSeq(b, 1, Len(a))

Changed(c) == c.pre # c.post

IsList(i) == listeners[i].fn \in ListTypes

\* C1: a completed addProject has invoked each listener registered at the
\* call exactly once; a completed moveProject has invoked each exactly once
\* when it changed the status of a project and none at all when it did not.
NotificationCount ==
  last.op # "none" =>
    IF last.op = "add" \/ Changed(last)
    THEN /\ \A i \in 1..last.n0 : last.count[i] = 1
         /\ \A i \in (last.n0 + 1)..MaxListeners : last.count[i] = 0
    ELSE \A i \in 1..MaxListeners : last.count[i] = 0

\* a moveProject that changed a status has returned, two listeners registered
NotificationCountWitness ==
  /\ last.op = "move" /\ Changed(last)
  /\ last.n0 = 2 /\ last.count[1] = 1 /\ last.count[2] = 1

\* C2: a completed moveProject whose id matched no project left every
\* project and the order as they were and invoked no listener.
UnknownIdNoOp ==
  (last.op = "move" /\ \A k \in 1..Len(last.pre) : last.pre[k].id # last.id) =>
    /\ last.post = last.pre
    /\ last.order = <<>>
    /\ \A i \in 1..MaxListeners : last.count[i] = 0

\* moveProject("nonexistent-id", Finished) has returned, with projects in the
\* store and a listener registered
UnknownIdNoOpWitness ==
  /\ last.op = "move" /\ last.id = "nonexistent-id" /\ last.status = Finished
  /\ Len(last.pre) = 2 /\ last.n0 >= 1 /\ Idle

\* C3: a moveProject with the arguments of the moveProject before it changes
\* nothing and invokes no listener, so the two calls together invoke each
\* listener at most once and the store is as the first call left it.
MoveIdempotent ==
  (last.op = "move" /\ last.repeat) =>
    /\ last.post = last.pre
    /\ \A i \in 1..MaxListeners : last.count[i] = 0
    /\ \A i \in 1..MaxListeners : last.before[i] + last.count[i] <= 1

\* the second of two equal moveProject calls has returned, and the first had
\* changed a status and invoked the listeners
MoveIdempotentWitness ==
  /\ last.op = "move" /\ last.repeat /\ Idle
  /\ last.n0 = 2 /\ last.before[1] = 1 /\ last.before[2] = 1
  /\ \E k \in 1..Len(last.post) : last.post[k].id = last.id

\* C4: when no call is in progress, the array each listener received last
\* holds the projects of the store, in order and with their statuses, as they
\* were when that listener was last invoked.
SingleSourceOfTruth ==
  Idle =>
    \A i \in 1..Len(listeners) :
      held[i] # NoArr => ValueOf(heap, arrays[held[i]]) = truth[i]

\* after an addProject, a second one and a moveProject that changed a
\* status, two listeners hold their last snapshots
SingleSourceOfTruthWitness ==
  /\ Idle /\ last.op = "move" /\ Changed(last)
  /\ Len(heap) = 2 /\ Len(listeners) = 2
  /\ held[1] # NoArr /\ held[2] # NoArr
  /\ Len(truth[1]) = 2 /\ Len(truth[2]) = 2

\* C5: whatever a subscriber does to the array it received, this.projects
\* holds exactly the projects created, in creation order, and the array a
\* ProjectList listener received is as it was delivered: the projects of the
\* store up to the length it had then.
SnapshotIsolation ==
  /\ arrays[StoreArr] = [k \in 1..Len(heap) |-> k]
  /\ \A i \in 1..Len(listeners) :
       (IsList(i) /\ held[i] # NoArr) => IsPrefix(arrays[held[i]], arrays[StoreArr])
  /\ \A i \in 1..Len(listeners) :
       (Idle /\ IsList(i) /\ held[i] # NoArr) =>
          /\ arrays[held[i]] = arrays[StoreArr]
          /\ ValueOf(heap, arrays[held[i]]) = truth[i]

\* a subscriber has changed the array it received, in a fan-out in which a
\* ProjectList listener received one too
SnapshotIsolationWitness ==
  /\ Idle /\ Len(listeners) = 2 /\ Len(heap) = 2
  /\ \E i, j \in 1..Len(listeners) :
       /\ listeners[i].fn = "mutator" /\ held[i] # NoArr
       /\ arrays[held[i]] # arrays[StoreArr]
       /\ IsList(j) /\ held[j] # NoArr

\* C6: only a call of moveProject changes the status of a project of the
\* store; a subscriber writing to a project of its snapshot does not.
OnlyMoveChangesStatus ==
  [][(\E r \in 1..Len(heap) : heap'[r].status # heap[r].status) =>
       (Idle /\ ~Idle' /\ stack'[1].op = "move")]_vars

\* C7: a completed addProject has appended one project with status Active and
\* the title, description and number of people it was given, whatever they
\* are, and every project stored before it is where and as it was.
AddAppends ==
  last.op = "add" =>
    /\ Len(last.post) = Len(last.pre) + 1
    /\ SubSeq(last.post, 1, Len(last.pre)) = last.pre
    /\ LET new == last.post[Len(last.post)]
       IN /\ new.title = last.title
          /\ new.description = last.description
          /\ new.people = last.people
          /\ new.status = Active

\* addProject("", "", 0) has returned with a project stored before it
AddAppendsWitness ==
  /\ last.op = "add" /\ last.title = "" /\ last.people = Num(0)
  /\ Len(last.pre) = 1 /\ last.pre[1].status = Finished /\ last.n0 >= 1

\* C8: no two projects of the store have the same id.
UniqueIds ==
  \A j, k \in 1..Len(arrays[StoreArr]) :
    j # k => Deref(heap, arrays[StoreArr][j]).id # Deref(heap, arrays[StoreArr][k]).id

\* C9: a completed moveProject has left the number and the order of the
\* projects and every id, title, description and number of people as they
\* were, and has changed the status of at most one project.
MoveFrame ==
  last.op = "move" =>
    /\ Len(last.post) = Len(last.pre)
    /\ \A k \in 1..Len(last.pre) :
         /\ last.post[k].id = last.pre[k].id
         /\ last.post[k].title = last.pre[k].title
         /\ last.post[k].description = last.pre[k].description
         /\ last.post[k].people = last.pre[k].people
    /\ Cardinality({k \in 1..Len(last.pre) :
                      last.post[k].status # last.pre[k].status}) <= 1

\* a moveProject has changed the status of one of two projects
MoveFrameWitness ==
  /\ last.op = "move" /\ Len(last.pre) = 2 /\ last.n0 >= 1
  /\ last.post[1].status # last.pre[1].status
  /\ last.post[2].status = last.pre[2].status

\* C10: this.listeners holds every callback ever registered, in the order of
\* registration, and a fan-out invokes them one after another in that order:
\* the callbacks invoked so far are the first ones registered, and a
\* completed fan-out has invoked all of them.
FanOutOrder ==
  /\ Len(listeners) = registered
  /\ \A i \in 1..Len(listeners) : listeners[i].serial = i
  /\ ~Idle => Top.order = [k \in 1..(Top.i - 1) |-> k]
  /\ (last.op = "add" \/ Changed(last)) => last.order = [k \in 1..last.n0 |-> k]

\* a fan-out has invoked a finished list registered first and then an active
\* list registered second
FanOutOrderWitness ==
  /\ Idle /\ last.op = "add" /\ last.order = <<1, 2>>
  /\ Len(listeners) = 2
  /\ listeners[1].fn = "finished" /\ listeners[2].fn = "active"

\* the projects of the store right after the mutation of a call
After(f) ==
  IF f.op = "add"
  THEN Append(f.pre, NewProject(f.id, f.title, f.description, f.people))
  ELSE [k \in 1..Len(f.pre) |->
          IF /\ f.pre[k].id = f.id
             /\ \A j \in 1..(k - 1) : f.pre[j].id # f.id
          THEN [f.pre[k] EXCEPT !.status = f.status]
          ELSE f.pre[k]]

\* C11: while the fan-out of a mutation still has a listener to call, the
\* projects it will hand to that listener are the projects as they were right
\* after that mutation, so every listener of the fan-out is shown the same
\* state, also when a callback has called moveProject in between.
DeliversStateAfterMutation ==
  (~Idle /\ ~LoopEnds(Top.i, listeners)) => StoreValue = After(Top)

\* C12: every call of addProject or moveProject returns after its fan-out
\* has completed; none is abandoned by an error thrown from the fan-out.
EveryCallReturns == last.op # "RangeError"

Range(q) == {q[k] : k \in 1..Len(q)}

\* C13: of every snapshot a listener received, the projects the filter of an
\* active list selects and those the filter of a finished list selects have
\* no project in common and together are all the projects of the snapshot,
\* each once.
FilterPartition ==
  \A i \in 1..Len(listeners) :
    held[i] # NoArr =>
      LET snap == arrays[held[i]]
          act == FilterByStatus(heap, snap, StatusOfType("active"))
          fin == FilterByStatus(heap, snap, StatusOfType("finished"))
      IN /\ Len(act) + Len(fin) = Len(snap)
         /\ Range(act) \cap Range(fin) = {}
         /\ Range(act) \cup Range(fin) = Range(snap)

\* a listener holds a snapshot with an active and a finished project
FilterPartitionWitness ==
  \E i \in 1..Len(listeners) :
    /\ held[i] # NoArr
    /\ Len(arrays[held[i]]) = 2
    /\ Len(FilterByStatus(heap, arrays[held[i]], Active)) = 1
    /\ Len(FilterByStatus(heap, arrays[held[i]], Finished)) = 1

\* a list whose listener has been called since the first project was added
Current(i) == IsList(i) /\ (held[i] # NoArr \/ heap = <<>>)

\* assignedProjects of every such list is the projects of the store with the
\* status of the list, in creation order
ListsShowStore ==
  Idle =>
    \A i \in 1..Len(listeners) :
      Current(i) =>
        assigned[i] = FilterByStatus(heap, arrays[StoreArr],
                                     StatusOfType(listeners[i].fn))

\* after a drop of a project with the id last.id on a list, every project with
\* that id is in the lists of the status dropped on and in no other list
DropMovesProject ==
  (Idle /\ last.op = "move") =>
    \A r \in 1..Len(heap) :
      heap[r].id = last.id =>
        \A i \in 1..Len(listeners) :
          Current(i) =>
            (r \in Range(assigned[i]) <=> StatusOfType(listeners[i].fn) = last.status)

\* C14: when no call is in progress, the active list shows exactly the active
\* projects of the store and the finished list the finished ones, in creation
\* order, and a project dropped on a list is in that list and not in the other.
ViewConsistency == ListsShowStore /\ DropMovesProject

\* what the form asks of its three fields
TitleOk(t) == Trim(t) # <<>>
DescriptionOk(d) == Trim(d) # <<>> /\ Len(d) >= 5
PeopleOk(n) == n.kind = "finite" /\ ~Less(n, Num(1)) /\ ~Less(Num(5), n)

\* the values of the form with a field that fails its rule
RefusedInputs ==
  {in \in FormTitles \X FormDescriptions \X FormPeople :
     ~(TitleOk(in[1]) /\ DescriptionOk(in[2]) /\ PeopleOk(ToNumber(in[3])))}

\* C15: a submit with a field that fails validation ends in the alert: the
\* projects of the store, the listeners and what every listener received are
\* as before, and no call of addProject is started. (Every step taken when no
\* call is in progress either is of that kind or is no submit of such values.)
SubmitBlocked ==
  [][Idle =>
       \/ /\ last'.op = "alert"
          /\ UNCHANGED <<listeners, heap, arrays, held, truth, assigned, stack>>
       \/ ~\E in \in RefusedInputs : SubmitHandler(in[1], in[2], in[3])]_vars

\* a submit has been refused with the alert when a project was stored and a
\* list registered, and the store is as it was before the submit
SubmitBlockedWitness ==
  /\ Idle /\ last.op = "alert"
  /\ Len(last.pre) >= 1 /\ last.n0 >= 1
  /\ last.post = last.pre /\ StoreValue = last.pre

\* C20: every project of the store, all of them added by submitting the form,
\* has a title that is not blank, a description that is not blank and has at
\* least 5 characters, and a number of people from 1 to 5.
StoredProjectsWellFormed ==
  \A r \in 1..Len(heap) :
    /\ TitleOk(heap[r].title)
    /\ DescriptionOk(heap[r].description)
    /\ PeopleOk(heap[r].people)

\* two submitted projects are stored, with a description that has five
\* characters only with its blanks
StoredProjectsWellFormedWitness ==
  /\ Idle /\ Len(heap) = 2
  /\ heap[2].description = <<" ", "a", "b", "c", " ">>
  /\ heap[2].people = Normal(15, -1)
  /\ last.op = "alert"

\* a constraint is set on a Validatable
Sets(v, name) == name \in v.has

\* every constraint that applies to the value holds: required, when set and
\* true, asks for a text that is not blank; minLength and maxLength apply to
\* texts, min and max to numbers
ConstraintsHold(v) ==
  /\ (Sets(v, "required") /\ v.required) => Trim(ValueText(v)) # <<>>
  /\ v.type = "string" =>
       /\ Sets(v, "minLength") => Len(v.value) >= v.minLength
       /\ Sets(v, "maxLength") => Len(v.value) <= v.maxLength
  /\ v.type = "number" =>
       /\ Sets(v, "min") => v.value.kind # "NaN" /\ ~Less(v.value, v.min)
       /\ Sets(v, "max") => v.value.kind # "NaN" /\ ~Less(v.max, v.value)

\* C16: validate returns true exactly when every constraint that applies to
\* the value holds; a constraint for the other type of value is skipped.
ValidateIffConstraintsHold ==
  probe.done => (probe.result <=> ConstraintsHold(probe.arg))

\* validate has returned true for the number 3 with required, min 1, max 5
\* and a minLength that it skipped
ValidateIffConstraintsHoldWitness ==
  /\ probe.done /\ probe.result
  /\ probe.arg.type = "number" /\ probe.arg.value = Num(3)
  /\ probe.arg.has = {"required", "minLength", "min", "max"}
  /\ probe.arg.required /\ probe.arg.min = Num(1) /\ probe.arg.max = Num(5)
  /\ probe.arg.minLength = 2

\* C17: no ProjectState exists before the first getInstance call, that call
\* constructs one, and every later call returns the same one: there is never
\* more than one ProjectState, so one projects array and one listeners array.
Singleton ==
  /\ created <= 1
  /\ (instance = NoInstance) <=> (created = 0)
  /\ projectState = NoInstance => created = 0
  /\ projectState # NoInstance => projectState = instance /\ instance = FirstInstance
  /\ probe.done => probe.result = projectState

\* getInstance has been called again after a list was registered and a
\* project added, and returned the one instance with its projects in place
SingletonWitness ==
  /\ probe.done /\ probe.result = FirstInstance /\ created = 1
  /\ Len(listeners) >= 1 /\ Len(arrays[StoreArr]) >= 1

\* C18: in every step the projects array of the store keeps the projects it
\* has in their places and gains at most one at its end, and every project
\* keeps its id, title, description and number of people.
NeverDeletedOrReordered ==
  [][/\ IsPrefix(arrays[StoreArr], arrays'[StoreArr])
     /\ Len(arrays'[StoreArr]) <= Len(arrays[StoreArr]) + 1
     /\ \A r \in 1..Len(heap) :
          /\ r <= Len(heap')
          /\ heap'[r].id = heap[r].id
          /\ heap'[r].title = heap[r].title
          /\ heap'[r].description = heap[r].description
          /\ heap'[r].people = heap[r].people]_vars

\* a moveProject to Active has called its listeners and is about to return,
\* and the call before it was a moveProject to Finished with the same id,
\* made with the same listeners when a project with that id was active
RoundTripEnds ==
  /\ Len(stack) = 1 /\ LoopEnds(Top.i, listeners)
  /\ Top.op = "move" /\ Top.status = Active
  /\ last.op = "move" /\ last.status = Finished /\ last.id = Top.id
  /\ last.n0 = Len(listeners)
  /\ \E k \in 1..Len(last.pre) :
       last.pre[k].id = last.id /\ last.pre[k].status = Active

\* C19: moveProject(id, Finished) and then moveProject(id, Active), for a
\* project that was active, leave the projects of the store as they were
\* before the two calls, invoke each listener twice in all, and the array a
\* listener received last holds the projects as they were before the calls.
RoundTrip ==
  RoundTripEnds =>
    /\ StoreValue = last.pre
    /\ \A i \in 1..Len(listeners) :
         /\ last.count[i] + Top.count[i] = 2
         /\ truth[i] = last.pre

====
